---------------------------- MODULE Spec2Model ----------------------------
(***************************************************************************)
(* Model of the student tracking program (src/main.cpp): the validators,   *)
(* the Student record, the Course linked list, the two quicksorts and the  *)
(* trie-based name sort.                                                    *)
(*                                                                         *)
(* C strings are finite sequences of byte codes (ASCII, 1..127); the       *)
(* terminating NUL is implicit.  C arrays are functions on 0..n-1 so that  *)
(* lo, hi, i, j keep the values they have in the source.                   *)
(***************************************************************************)
EXTENDS Integers, Sequences, FiniteSets, TLC

VARIABLES
    \* ---- validator harness (ValidSpec)
    vname,      \* the string handed to validateName
    vres,       \* "pending", or what validateName did with vname
    \* ---- Student / Course (Spec)
    students,   \* heap: address -> [state, name, roll]
    course,     \* the Course object: "constructed" or "destroyed"
    list,       \* Course::head: the linked list, head first, as a sequence of pointers
    count,      \* Course::count
    added,      \* ghost: pointers held by the Course, in the order operator+= took them
    last,       \* the most recent call: [op, s, arg, thrown, ret, out]
    \* ---- quicksort (SortSpec)
    arr,        \* the Student* array being sorted (0-based)
    orig,       \* the array as handed to the first sort
    first,      \* the array after the first sort returned
    stack,      \* call stack of quickSortRoll / quickSortMarks frames, top last
    phase,      \* "pass1", "sorted1", "pass2", "sorted2"
    mode,       \* "roll", or the MarkComponent: "MC_ASSIGN", "MC_MID", "MC_LAB", "MC_FINAL"
    oob         \* an array position outside 0..n-1 was read (undefined behaviour)

vars == <<vname, vres, students, course, list, count, added, last,
          arr, orig, first, stack, phase, mode, oob>>

validVars == <<vname, vres>>
courseVars == <<students, course, list, count, added, last>>
sortVars == <<arr, orig, first, stack, phase, mode, oob>>

-----------------------------------------------------------------------------
(* Bounds of the model *)

MaxNameLen == 5
\* Student objects created in a run
MaxStudents == 3
\* nodes in the Course's list
MaxCount == 3
MaxN == 3

(* Program constants *)

NAME_MAX == 64
ROLL_MAX == 32
TRIE_ALPHABET == 27

-----------------------------------------------------------------------------
(* <cctype> in the "C" locale, on byte codes *)

isupper(c) == c \in 65..90
islower(c) == c \in 97..122
isalpha(c) == isupper(c) \/ islower(c)
isdigit(c) == c \in 48..57
isalnum(c) == isalpha(c) \/ isdigit(c)
isspace(c) == c = 32 \/ c \in 9..13
tolower(c) == IF isupper(c) THEN c + 32 ELSE c

\* name[i] of the source: C index i of a string
at(s, i) == s[i + 1]
strlen(s) == Len(s)

\* strcmp on unsigned bytes, reduced to its sign; the implicit NUL ends a string
RECURSIVE strcmpFrom(_, _, _)
strcmpFrom(a, b, i) ==
    LET ca == IF i < Len(a) THEN at(a, i) ELSE 0
        cb == IF i < Len(b) THEN at(b, i) ELSE 0
    IN  IF ca < cb THEN -1
        ELSE IF ca > cb THEN 1
        ELSE IF ca = 0 THEN 0
        ELSE strcmpFrom(a, b, i + 1)

strcmp(a, b) == strcmpFrom(a, b, 0)

-----------------------------------------------------------------------------
(* Helper functions and validators *)

isValidNameChar(c) == isalpha(c) \/ c = 32 \/ c = 45

isValidRollChar(c) == isalnum(c) \/ c = 47 \/ c = 45

\* safeStrCpy(dst, src, maxlen): what was thrown and what dst holds afterwards
safeStrCpyOff(dst, src, maxlen) ==
    LET len == strlen(src)
    IN  IF len > maxlen
        THEN [thrown |-> "BufferOverflowException", dst |-> dst]
        ELSE [thrown |-> "none", dst |-> src]

safeStrCpy(dst, src, maxlen) ==
    LET len == strlen(src)
    IN  IF len >= maxlen
        THEN [thrown |-> "BufferOverflowException", dst |-> dst]
        ELSE [thrown |-> "none", dst |-> src]

\* the positions at which the scans of validateName find !isspace(c) && !inword:
\* inword is false at the start and after a whitespace character
wordStarts(name) ==
    {i \in 0..(strlen(name) - 1) :
        ~isspace(at(name, i)) /\ (i = 0 \/ isspace(at(name, i - 1)))}

\* first loop of validateName: it throws at the first invalid character, and
\* otherwise counts the words
nameFirstLoop(name) ==
    IF \E i \in 0..(strlen(name) - 1) : ~isValidNameChar(at(name, i))
    THEN [thrown |-> "InvalidSecondNameException", words |-> 0]
    ELSE [thrown |-> "none", words |-> Cardinality(wordStarts(name))]

\* the inner while of the second loop, from the start i of the second word to
\* the next whitespace or the end: letters and '-' only
nameSecondWord(name, i) ==
    LET n == strlen(name)
        stop == {j \in i..(n - 1) : isspace(at(name, j))} \cup {n}
        end == CHOOSE j \in stop : \A k \in stop : j <= k
    IN  IF \E j \in i..(end - 1) : ~isalpha(at(name, j)) /\ at(name, j) # 45
        THEN "InvalidSecondNameException"
        ELSE "none"

\* second loop of validateName: find the second word, check it, break
nameSecondLoop(name) ==
    LET ws == wordStarts(name)
    IN  IF Cardinality(ws) < 2 THEN "none"
        ELSE LET w1 == CHOOSE i \in ws : \A k \in ws : i <= k
                 w2 == CHOOSE i \in ws \ {w1} : \A k \in ws \ {w1} : i <= k
             IN  nameSecondWord(name, w2)

\* the word-count test after the first loop, with an off-by-one
nameWordsShortOff(words) == words < 1

nameWordsShort(words) == words < 2

\* validateName(name): "none" when it returns, else the exception thrown
validateName(name) ==
    IF strlen(name) = 0 THEN "NoSecondNameException"
    ELSE LET r == nameFirstLoop(name)
         IN  IF r.thrown # "none" THEN r.thrown
             ELSE IF nameWordsShort(r.words) THEN "NoSecondNameException"
             ELSE nameSecondLoop(name)

\* validateRoll(roll): "none" when it returns, else the exception thrown
validateRoll(roll) ==
    IF strlen(roll) = 0 THEN "InvalidRollException"
    ELSE IF \E i \in 0..(strlen(roll) - 1) : ~isValidRollChar(at(roll, i))
    THEN "InvalidRollException"
    ELSE "none"

-----------------------------------------------------------------------------
(* Inputs *)

\* a, B, space, '-', 1, tab
NameAlphabet == {97, 66, 32, 45, 49, 9}

StringsUpTo(alphabet, n) == UNION {[1..k -> alphabet] : k \in 0..n}


\* names the validator accepts: "B a", "b a-" and "b ab".  After folding,
\* "B a" is a prefix of the other two, and "b ab" and "b a-" first differ
\* where one has a letter and the other a character of the separator bucket
ValidNames == { <<66, 32, 97>>, <<98, 32, 97, 45>>, <<98, 32, 97, 98>> }

\* names it rejects: "b" (one word), "b 1" (digit), "" (empty)
BadNames == { <<98>>, <<98, 32, 49>>, <<>> }

\* rolls the validator accepts, "a1" and "a/2", and one it rejects, "a#"
ValidRolls == { <<97, 49>>, <<97, 47, 50>> }
BadRolls == { <<97, 35>> }

\* s padded with 'a' to length n
Pad(s, n) == s \o [k \in 1..(n - Len(s)) |-> 97]

\* names at the capacity boundary: "b aaa..." of length NAME_MAX-1 and NAME_MAX,
\* and a rejected name of length NAME_MAX
RecordNames ==
    ValidNames \cup BadNames
        \cup { Pad(<<98, 32>>, NAME_MAX - 1), Pad(<<98, 32>>, NAME_MAX), Pad(<<98>>, NAME_MAX) }

RecordRolls ==
    ValidRolls \cup BadRolls \cup {<<>>}
        \cup { Pad(<<97>>, ROLL_MAX - 1), Pad(<<97>>, ROLL_MAX), Pad(<<35>>, ROLL_MAX) }

-----------------------------------------------------------------------------
(* Student *)

Ptrs == 1..MaxStudents

\* Student(): name[0] = roll[0] = '\0'
NewRecord == [state |-> "live", name |-> <<>>, roll |-> <<>>]
\* an address new has not returned yet
NoRecord == [state |-> "unalloc", name |-> <<>>, roll |-> <<>>]
\* an address whose Student was deleted by the Course; what its bytes hold
\* is unspecified, and the fields of this record are never read
GoneRecord == [state |-> "gone", name |-> <<>>, roll |-> <<>>]

Call(op, s, arg, thrown, ret, out) ==
    [op |-> op, s |-> s, arg |-> arg, thrown |-> thrown, ret |-> ret, out |-> out]

\* the process has not been aborted
Alive == last.thrown # "abort"

\* the Course object exists
Constructed == course = "constructed"

\* new BTechStudent() / MTechStudent() / PhDStudent(): a pointer to a new
\* Student; no other object is touched.  operator new returns the address
\* of a Student deleted earlier, which a node of the list may still hold,
\* or an address not used before (the lowest).
NewStudent ==
    /\ Alive
    /\ \E s \in Ptrs :
        /\ \/ students[s].state = "gone"
           \/ /\ students[s].state = "unalloc"
              /\ \A t \in Ptrs : t < s => students[t].state # "unalloc"
        /\ students' = [students EXCEPT ![s] = NewRecord]
        /\ last' = Call("new", s, <<>>, "none", FALSE, <<>>)
    /\ UNCHANGED <<course, list, count, added, validVars, sortVars>>

\* Student::setName(nm) on a live record
SetName(s, nm) ==
    /\ Alive
    /\ students[s].state = "live"
    /\ LET v == validateName(nm)
           c == safeStrCpy(students[s].name, nm, NAME_MAX)
       IN  IF v # "none"
           THEN /\ students' = students
                /\ last' = Call("setName", s, nm, v, FALSE, <<>>)
           ELSE /\ students' = [students EXCEPT ![s].name = c.dst]
                /\ last' = Call("setName", s, nm, c.thrown, FALSE, <<>>)
    /\ UNCHANGED <<course, list, count, added, validVars, sortVars>>

\* Student::setRoll(r) on a live record
SetRoll(s, r) ==
    /\ Alive
    /\ students[s].state = "live"
    /\ LET v == validateRoll(r)
           c == safeStrCpy(students[s].roll, r, ROLL_MAX)
       IN  IF v # "none"
           THEN /\ students' = students
                /\ last' = Call("setRoll", s, r, v, FALSE, <<>>)
           ELSE /\ students' = [students EXCEPT ![s].roll = c.dst]
                /\ last' = Call("setRoll", s, r, c.thrown, FALSE, <<>>)
    /\ UNCHANGED <<course, list, count, added, validVars, sortVars>>

-----------------------------------------------------------------------------
(* Course *)

\* Course::operator+=(s): a new node at the head, for whatever pointer the
\* driver passes: one the Course already holds, or one whose Student the
\* Course has deleted, is linked as well
Add(s) ==
    /\ Alive
    /\ Constructed
    /\ students[s].state # "unalloc"
    /\ count < MaxCount
    /\ list' = <<s>> \o list
    /\ count' = count + 1
    /\ added' = Append(added, s)
    /\ last' = Call("add", s, <<>>, "none", FALSE, <<>>)
    /\ UNCHANGED <<students, course, validVars, sortVars>>

\* Course::size()
size == count

\* Course::exportArray(): nullptr (the empty array) when count = 0
exportArray ==
    IF count = 0 THEN <<>>
    ELSE [idx \in 0..(count - 1) |-> list[idx + 1]]

\* node k of the list points to a Student that has been deleted
Dangling(k) == students[list[k]].state = "gone"

\* strcmp(cur->student->getRoll(), roll) == 0 at every node of the list.  At
\* a dangling node the bytes compared are those of a deleted Student: the
\* comparison may come out either way.
RollTests(roll) ==
    {eq \in [1..Len(list) -> BOOLEAN] :
        \A k \in 1..Len(list) :
            ~Dangling(k) => (eq[k] <=> strcmp(students[list[k]].roll, roll) = 0)}

\* the while loop of removeByRoll: position in the list of the first node
\* whose roll compares equal, starting at node k; 0 when cur runs off the end
RECURSIVE firstMatch(_, _)
firstMatch(eq, k) ==
    IF k > Len(list) THEN 0
    ELSE IF eq[k] THEN k
    ELSE firstMatch(eq, k + 1)

\* Course::removeByRoll(roll): the node is unlinked, and the Student and the
\* node are deleted.  A call that reads a deleted Student on its way either
\* aborts the process or goes on with what it read; delete on a Student
\* already deleted is such a read too.
RemoveByRoll(roll) ==
    /\ Alive
    /\ Constructed
    /\ \E eq \in RollTests(roll) :
        LET k == firstMatch(eq, 1)
            visited == IF k = 0 THEN 1..Len(list) ELSE 1..k
        IN  \/ /\ \E x \in visited : Dangling(x)
               /\ last' = Call("removeByRoll", 0, roll, "abort", FALSE, <<>>)
               /\ UNCHANGED <<students, list, count, added>>
            \/ IF k = 0
               THEN /\ last' = Call("removeByRoll", 0, roll, "none", FALSE, <<>>)
                    /\ UNCHANGED <<students, list, count, added>>
               ELSE /\ list' = SubSeq(list, 1, k - 1) \o SubSeq(list, k + 1, Len(list))
                    /\ students' = [students EXCEPT ![list[k]] = GoneRecord]
                    /\ count' = count - 1
                    /\ added' = SubSeq(added, 1, Len(added) - k)
                                  \o SubSeq(added, Len(added) - k + 2, Len(added))
                    /\ last' = Call("removeByRoll", list[k], roll, "none", TRUE, <<>>)
    /\ UNCHANGED <<course, validVars, sortVars>>

\* Course::findByRoll(roll): the Student of the first node whose roll
\* compares equal, nullptr (0) when there is none; a call that reads a
\* deleted Student on its way aborts the process or goes on with what it read
FindByRoll(roll) ==
    /\ Alive
    /\ Constructed
    /\ \E eq \in RollTests(roll) :
        LET k == firstMatch(eq, 1)
            visited == IF k = 0 THEN 1..Len(list) ELSE 1..k
        IN  \/ /\ \E x \in visited : Dangling(x)
               /\ last' = Call("findByRoll", 0, roll, "abort", FALSE, <<>>)
            \/ last' = Call("findByRoll", IF k = 0 THEN 0 ELSE list[k], roll,
                            "none", FALSE, <<>>)
    /\ UNCHANGED <<students, course, list, count, added, validVars, sortVars>>

\* Course::~Course(): from the head, each node's Student and the node are
\* deleted.  delete on a Student already deleted (a dangling node, or the
\* second node of a Student the list holds twice) aborts the process or
\* goes on.
Destroy ==
    /\ Alive
    /\ Constructed
    /\ \/ /\ \E x \in 1..Len(list) :
                Dangling(x) \/ \E y \in 1..(x - 1) : list[y] = list[x]
          /\ last' = Call("~Course", 0, <<>>, "abort", FALSE, <<>>)
          /\ UNCHANGED <<students, course, list, count, added>>
       \/ /\ students' = [s \in Ptrs |->
                            IF \E x \in 1..Len(list) : list[x] = s THEN GoneRecord
                            ELSE students[s]]
          /\ course' = "destroyed"
          /\ list' = <<>>
          /\ count' = 0
          /\ added' = <<>>
          /\ last' = Call("~Course", 0, <<>>, "none", FALSE, <<>>)
    /\ UNCHANGED <<validVars, sortVars>>

-----------------------------------------------------------------------------
(* Trie for name sorting.  A node is the path of child indices leading to   *)
(* it from the root; a trie is its set of nodes and each node's students.   *)

chIndex(c) ==
    IF c = 32 THEN 26
    ELSE LET l == tolower(c)
         IN  IF l >= 97 /\ l <= 122 THEN l - 97 ELSE 26

\* NameTrie(): root = new TrieNode()
NewTrie == [nodes |-> {<<>>}, studs |-> [p \in {<<>>} |-> <<>>]]

\* NameTrie::insert(s), with TrieNode::addStudent at the terminal node; mem
\* is what the program reads at each pointer
insert(trie, mem, s) ==
    LET name == mem[s].name
        path == [i \in 1..strlen(name) |-> chIndex(name[i])]
        nodes == trie.nodes \cup {SubSeq(path, 1, k) : k \in 0..Len(path)}
        old(p) == IF p \in trie.nodes THEN trie.studs[p] ELSE <<>>
    IN  [nodes |-> nodes,
         studs |-> [p \in nodes |-> IF p = path THEN Append(old(p), s) ELSE old(p)]]

\* out[idx++] = node->students[k] for k = 0 .. studCount-1
RECURSIVE appendStudents(_, _, _)
appendStudents(studs, k, st) ==
    IF k > Len(studs) THEN st
    ELSE appendStudents(studs, k + 1,
            [out |-> [st.out EXCEPT ![st.idx] = studs[k]], idx |-> st.idx + 1])

RECURSIVE traverseCollect(_, _, _)
RECURSIVE traverseChildren(_, _, _, _)

\* the for loop over children[i], from index i up to TRIE_ALPHABET-1: null
\* children are skipped, the others are visited in increasing index order
traverseChildren(trie, node, i, st) ==
    LET rest == {x \in i..(TRIE_ALPHABET - 1) : Append(node, x) \in trie.nodes}
    IN  IF rest = {} THEN st
        ELSE LET x == CHOOSE x \in rest : \A y \in rest : x <= y
             IN  traverseChildren(trie, node, x + 1,
                                  traverseCollect(trie, Append(node, x), st))

\* NameTrie::traverseCollect(node, out, idx); st = [out, idx]
traverseCollect(trie, node, st) ==
    traverseChildren(trie, node, 0, appendStudents(trie.studs[node], 1, st))

\* NameTrie::collectSorted(out, count)
collectSorted(trie, out) == traverseCollect(trie, <<>>, [out |-> out, idx |-> 0]).out

RECURSIVE insertAll(_, _, _, _, _)
insertAll(trie, mem, a, i, n) ==
    IF i >= n THEN trie ELSE insertAll(insert(trie, mem, a[i]), mem, a, i + 1, n)

\* sortByNameUsingTrie(c); nullptr is the empty array, a null entry is 0
sortByNameUsingTrie(mem) ==
    LET n == size
    IN  IF n = 0 THEN <<>>
        ELSE LET a == exportArray
                 trie == insertAll(NewTrie, mem, a, 0, n)
             IN  collectSorted(trie, [i \in 0..(n - 1) |-> 0])

\* what getName() returns on a deleted Student is whatever bytes the
\* allocator left there.  Only where such a string sorts among the names
\* of the other Students shows in the result, so the model draws it from
\* strings that fall in every gap between the names the specifications
\* use, two of them before and two after all of these:
\* "", "a", "aa", "b aa", "b ac", "[", "[["
FreedNames ==
    { <<>>, <<97>>, <<97, 97>>, <<98, 32, 97, 97>>, <<98, 32, 97, 99>>,
      <<91>>, <<91, 91>> }

\* the deleted Students the list points to
FreedInList == {s \in Ptrs : students[s].state = "gone" /\ \E x \in 1..Len(list) : list[x] = s}

\* what the program reads at each address: the Student itself, and
\* unspecified bytes where a node of the list points to a deleted Student
Memories ==
    {[s \in Ptrs |->
        IF s \in FreedInList THEN [students[s] EXCEPT !.name = g[s]]
        ELSE students[s]] : g \in [FreedInList -> FreedNames]}

\* a call of sortByNameUsingTrie(c).  With a dangling node in the list the
\* call reads a deleted Student: it aborts the process or sorts what it read
SortByName ==
    /\ Alive
    /\ Constructed
    /\ \/ /\ \E k \in 1..Len(list) : Dangling(k)
          /\ last' = Call("sortByName", 0, <<>>, "abort", FALSE, <<>>)
       \/ \E mem \in Memories :
             last' = Call("sortByName", 0, <<>>, "none", FALSE, sortByNameUsingTrie(mem))
    /\ UNCHANGED <<students, course, list, count, added, validVars, sortVars>>

-----------------------------------------------------------------------------
(* Idle values of the variables a specification does not use *)

ValidIdle == vname = <<>> /\ vres = "idle"
CourseIdle ==
    /\ students = [s \in Ptrs |-> NoRecord]
    /\ course = "constructed"
    /\ list = <<>>
    /\ count = 0
    /\ added = <<>>
    /\ last = Call("init", 0, <<>>, "none", FALSE, <<>>)
SortIdle ==
    /\ arr = <<>>
    /\ orig = <<>>
    /\ first = <<>>
    /\ stack = <<>>
    /\ phase = "idle"
    /\ mode = "idle"
    /\ oob = FALSE

-----------------------------------------------------------------------------
(* Spec: records are created, set and handed to a Course, from which       *)
(* records are removed by roll                                              *)

\* Course(): head = nullptr, count = 0; no Student exists yet
Init == ValidIdle /\ CourseIdle /\ SortIdle

\* "B a" and "b"
SpecNames == { <<66, 32, 97>>, <<98>> }
\* "a1" and "a#"
SpecRolls == { <<97, 49>> } \cup BadRolls
\* the rolls looked up and removed: "a1" and ""
SpecKeys == { <<97, 49>>, <<>> }

Next ==
    \/ NewStudent
    \/ \E s \in Ptrs, nm \in SpecNames : SetName(s, nm)
    \/ \E s \in Ptrs, r \in SpecRolls : SetRoll(s, r)
    \/ \E s \in Ptrs : Add(s)
    \/ \E r \in SpecKeys : RemoveByRoll(r)
    \/ \E r \in SpecKeys : FindByRoll(r)
    \/ SortByName
    \/ Destroy

Spec == Init /\ [][Next]_vars

-----------------------------------------------------------------------------
(* NameSpec: the same program with a richer choice of names, for the name  *)
(* sort                                                                     *)

\* "B a", "b a-" and "b ab"
NameSpecNames == ValidNames
\* "a1"
NameSpecRolls == { <<97, 49>> }

NameNext ==
    \/ NewStudent
    \/ \E s \in Ptrs, nm \in NameSpecNames : SetName(s, nm)
    \/ \E s \in Ptrs, r \in NameSpecRolls : SetRoll(s, r)
    \/ \E s \in Ptrs : Add(s)
    \/ \E r \in NameSpecRolls : RemoveByRoll(r)
    \/ SortByName
    \/ Destroy

NameSpec == Init /\ [][NameNext]_vars

-----------------------------------------------------------------------------
(* RecordSpec: one record and its setters, with names and rolls up to and  *)
(* beyond the capacity of the buffers                                       *)

RecordInit ==
    /\ ValidIdle /\ SortIdle
    /\ students = [s \in Ptrs |-> IF s = 1 THEN NewRecord ELSE NoRecord]
    /\ course = "constructed"
    /\ list = <<>>
    /\ count = 0
    /\ added = <<>>
    /\ last = Call("new", 1, <<>>, "none", FALSE, <<>>)

RecordNext ==
    \/ \E nm \in RecordNames : SetName(1, nm)
    \/ \E r \in RecordRolls : SetRoll(1, r)

RecordSpec == RecordInit /\ [][RecordNext]_vars

-----------------------------------------------------------------------------
(* Quicksort on a Student* array.  An array entry is the record it points  *)
(* to: [id, roll, marks], id being the pointer.  A frame of the call stack *)
(* is [lo, hi, i, j, pivot, pc].                                            *)

MarkComponents == {"MC_ASSIGN", "MC_MID", "MC_LAB", "MC_FINAL"}

getComponent(s, mc) ==
    CASE mc = "MC_ASSIGN" -> s.marks.assignment
      [] mc = "MC_MID" -> s.marks.midterm
      [] mc = "MC_LAB" -> s.marks.lab
      [] mc = "MC_FINAL" -> s.marks.finalexam
      [] OTHER -> 0

\* a swap that loses the temporary
quickSwapOff(a, i, j) == [a EXCEPT ![i] = a[j]]

\* quickSwap(arr, i, j)
quickSwap(a, i, j) == [a EXCEPT ![i] = a[j], ![j] = a[i]]

\* a scan test that does not stop at a key equal to the pivot
belowPivotOff(s, pivot) ==
    IF mode = "roll" THEN strcmp(s.roll, pivot.roll) <= 0
    ELSE getComponent(s, mode) <= pivot

\* the test of the first inner while: quickSortRoll compares the roll with the
\* pivot record's roll, quickSortMarks the component with pivotVal
belowPivot(s, pivot) ==
    IF mode = "roll" THEN strcmp(s.roll, pivot.roll) < 0
    ELSE getComponent(s, mode) < pivot

\* the test of the second inner while
abovePivot(s, pivot) ==
    IF mode = "roll" THEN strcmp(s.roll, pivot.roll) > 0
    ELSE getComponent(s, mode) > pivot

\* n of an array on 0..n-1
Length(a) == Cardinality(DOMAIN a)

Frame(lo, hi) == [lo |-> lo, hi |-> hi, i |-> 0, j |-> 0, pivot |-> 0, pc |-> "entry"]

top == stack[Len(stack)]
SetTop(f) == [stack EXCEPT ![Len(stack)] = f]
Running == phase \in {"pass1", "pass2"} /\ stack # <<>> /\ ~oob

\* the call returns: the frame is popped; when it was the outermost call the
\* sort is over
Pop ==
    /\ stack' = SubSeq(stack, 1, Len(stack) - 1)
    /\ IF Len(stack) = 1
       THEN /\ phase' = (IF phase = "pass1" THEN "sorted1" ELSE "sorted2")
            /\ first' = (IF phase = "pass1" THEN arr ELSE first)
       ELSE UNCHANGED <<phase, first>>

\* if (lo >= hi) return; pivot = arr[(lo+hi)/2]; i = lo, j = hi
Enter ==
    /\ Running /\ top.pc = "entry"
    /\ IF top.lo >= top.hi
       THEN Pop
       ELSE /\ stack' = SetTop([top EXCEPT
                    !.pivot = (IF mode = "roll"
                               THEN arr[(top.lo + top.hi) \div 2]
                               ELSE getComponent(arr[(top.lo + top.hi) \div 2], mode)),
                    !.i = top.lo, !.j = top.hi, !.pc = "while"])
            /\ UNCHANGED <<phase, first>>
    /\ UNCHANGED <<arr, orig, mode, oob, validVars, courseVars>>

\* while (i <= j)
While ==
    /\ Running /\ top.pc = "while"
    /\ stack' = SetTop([top EXCEPT !.pc = IF top.i <= top.j THEN "scanI" ELSE "recurseLo"])
    /\ UNCHANGED <<arr, orig, first, phase, mode, oob, validVars, courseVars>>

\* while (key(arr[i]) < pivot) i++;  a read outside the array is undefined:
\* the test may come out either way
ScanI ==
    /\ Running /\ top.pc = "scanI"
    /\ IF top.i \in DOMAIN arr
       THEN /\ stack' = SetTop(IF belowPivot(arr[top.i], top.pivot)
                               THEN [top EXCEPT !.i = top.i + 1]
                               ELSE [top EXCEPT !.pc = "scanJ"])
            /\ oob' = oob
       ELSE /\ oob' = TRUE
            /\ \E b \in BOOLEAN :
                 stack' = SetTop(IF b THEN [top EXCEPT !.i = top.i + 1]
                                 ELSE [top EXCEPT !.pc = "scanJ"])
    /\ UNCHANGED <<arr, orig, first, phase, mode, validVars, courseVars>>

\* while (key(arr[j]) > pivot) j--;
ScanJ ==
    /\ Running /\ top.pc = "scanJ"
    /\ IF top.j \in DOMAIN arr
       THEN /\ stack' = SetTop(IF abovePivot(arr[top.j], top.pivot)
                               THEN [top EXCEPT !.j = top.j - 1]
                               ELSE [top EXCEPT !.pc = "swap"])
            /\ oob' = oob
       ELSE /\ oob' = TRUE
            /\ \E b \in BOOLEAN :
                 stack' = SetTop(IF b THEN [top EXCEPT !.j = top.j - 1]
                                 ELSE [top EXCEPT !.pc = "swap"])
    /\ UNCHANGED <<arr, orig, first, phase, mode, validVars, courseVars>>

\* if (i <= j) { quickSwap(arr, i, j); i++; j--; }
Swap ==
    /\ Running /\ top.pc = "swap"
    /\ IF top.i <= top.j
       THEN /\ arr' = quickSwap(arr, top.i, top.j)
            /\ stack' = SetTop([top EXCEPT !.i = top.i + 1, !.j = top.j - 1, !.pc = "while"])
       ELSE /\ arr' = arr
            /\ stack' = SetTop([top EXCEPT !.pc = "while"])
    /\ UNCHANGED <<orig, first, phase, mode, oob, validVars, courseVars>>

\* if (lo < j) quickSort(arr, lo, j)
RecurseLo ==
    /\ Running /\ top.pc = "recurseLo"
    /\ stack' = IF top.lo < top.j
                THEN Append(SetTop([top EXCEPT !.pc = "recurseHi"]), Frame(top.lo, top.j))
                ELSE SetTop([top EXCEPT !.pc = "recurseHi"])
    /\ UNCHANGED <<arr, orig, first, phase, mode, oob, validVars, courseVars>>

\* if (i < hi) quickSort(arr, i, hi); then the call returns
RecurseHi ==
    /\ Running /\ top.pc = "recurseHi"
    /\ IF top.i < top.hi
       THEN /\ stack' = Append(SetTop([top EXCEPT !.pc = "return"]), Frame(top.i, top.hi))
            /\ UNCHANGED <<phase, first>>
       ELSE Pop
    /\ UNCHANGED <<arr, orig, mode, oob, validVars, courseVars>>

Return ==
    /\ Running /\ top.pc = "return"
    /\ Pop
    /\ UNCHANGED <<arr, orig, mode, oob, validVars, courseVars>>

\* quickSortRoll(arr, 0, n-1) once more, on the sorted array
SortAgain ==
    /\ phase = "sorted1" /\ mode = "roll"
    /\ phase' = "pass2"
    /\ stack' = <<Frame(0, Length(arr) - 1)>>
    /\ UNCHANGED <<arr, orig, first, mode, oob, validVars, courseVars>>

\* Marks(): all components 0
NoMarks == [assignment |-> 0, midterm |-> 0, lab |-> 0, finalexam |-> 0]

\* three score bundles; each component orders them differently
MarkBundles ==
    { [assignment |-> 0, midterm |-> 2, lab |-> 1, finalexam |-> 0],
      [assignment |-> 1, midterm |-> 1, lab |-> 2, finalexam |-> 2],
      [assignment |-> 2, midterm |-> 0, lab |-> 0, finalexam |-> 1] }

\* "a", "a/2", "a1": byte-wise, "a" < "a/2" < "a1"
SortRolls == { <<97>>, <<97, 47, 50>>, <<97, 49>> }

\* the arrays of n distinct pointers whose records take their rolls and marks
\* from the given sets
Arrays(n, rolls, marks) ==
    { [x \in 0..(n - 1) |-> [id |-> x + 1, roll |-> r[x], marks |-> m[x]]] :
        r \in [0..(n - 1) -> rolls], m \in [0..(n - 1) -> marks] }

SortInit ==
    /\ ValidIdle /\ CourseIdle
    /\ mode \in {"roll"} \cup MarkComponents
    /\ \E n \in 0..MaxN :
          arr \in IF mode = "roll" THEN Arrays(n, SortRolls, {NoMarks})
                  ELSE Arrays(n, ValidRolls, MarkBundles)
    /\ orig = arr
    /\ first = <<>>
    /\ stack = <<Frame(0, Length(arr) - 1)>>
    /\ phase = "pass1"
    /\ oob = FALSE

SortNext ==
    \/ Enter
    \/ While
    \/ ScanI
    \/ ScanJ
    \/ Swap
    \/ RecurseLo
    \/ RecurseHi
    \/ Return
    \/ SortAgain

\* a call that has started runs on: the program is sequential
SortSpec == SortInit /\ [][SortNext]_vars /\ WF_vars(SortNext)

-----------------------------------------------------------------------------
(* ValidSpec: validateName applied to every string over NameAlphabet of at *)
(* most MaxNameLen characters                                               *)

ValidInit ==
    /\ vname \in StringsUpTo(NameAlphabet, MaxNameLen)
    /\ vres = "pending"
    /\ CourseIdle /\ SortIdle

Validate ==
    /\ vres = "pending"
    /\ vres' = validateName(vname)
    /\ UNCHANGED <<vname, courseVars, sortVars>>

ValidNext == Validate

ValidSpec == ValidInit /\ [][ValidNext]_vars

-----------------------------------------------------------------------------
(* Vocabulary of the claims *)

IsLetter(c) == (c >= 65 /\ c <= 90) \/ (c >= 97 /\ c <= 122)
IsWhitespace(c) == c \in {9, 10, 11, 12, 13, 32}
IsNameChar(c) == IsLetter(c) \/ c = 32 \/ c = 45
AllNameChars(s) == \A k \in 1..Len(s) : IsNameChar(s[k])

\* the number of whitespace-separated tokens of s: its maximal runs of
\* non-whitespace characters, counted at their last character
TokenCount(s) ==
    Cardinality({k \in 1..Len(s) :
        ~IsWhitespace(s[k]) /\ (k = Len(s) \/ IsWhitespace(s[k + 1]))})

-----------------------------------------------------------------------------
(* C7 *)

\* C7 as stated: validateName(s) succeeds exactly when s is non-empty, holds
\* only letters, spaces and hyphens and has at least two tokens; an empty s
\* or an s with fewer than two tokens fails with NoSecondNameException; an s
\* with a character that is no letter, space or hyphen fails with
\* InvalidSecondNameException.
C7_AsStated ==
    vres # "pending" =>
        /\ (vres = "none") <=>
              (vname # <<>> /\ AllNameChars(vname) /\ TokenCount(vname) >= 2)
        /\ (vname = <<>> \/ TokenCount(vname) < 2) => vres = "NoSecondNameException"
        /\ ~AllNameChars(vname) => vres = "InvalidSecondNameException"

\* C7 amended: as C7, except that fewer than two tokens gives
\* NoSecondNameException only when every character is a letter, space or
\* hyphen; the character check comes first.
C7_NameValidation ==
    vres # "pending" =>
        /\ (vres = "none") <=>
              (vname # <<>> /\ AllNameChars(vname) /\ TokenCount(vname) >= 2)
        /\ (vname = <<>> \/ (AllNameChars(vname) /\ TokenCount(vname) < 2))
              => vres = "NoSecondNameException"
        /\ ~AllNameChars(vname) => vres = "InvalidSecondNameException"

\* a one-token string with a digit was validated and rejected for its character
C7_Witness ==
    /\ vres = "InvalidSecondNameException"
    /\ TokenCount(vname) = 1
    /\ \E k \in 1..Len(vname) : vname[k] = 49

-----------------------------------------------------------------------------
(* C8 *)

\* C8: setName and setRoll never partially update a record.  If the new
\* value fails validation, or is as long as the field's capacity or longer
\* (NAME_MAX for names, ROLL_MAX for rolls; the overflow error is raised),
\* the stored name/roll is what it was before the call; otherwise it is the
\* new value in full.
C8_SetAllOrNothing ==
    [][ /\ last'.op = "setName" =>
              LET s == last'.s
                  nm == last'.arg
              IN  IF validateName(nm) # "none"
                  THEN /\ students'[s].name = students[s].name
                       /\ last'.thrown = validateName(nm)
                  ELSE IF Len(nm) >= NAME_MAX
                  THEN /\ students'[s].name = students[s].name
                       /\ last'.thrown = "BufferOverflowException"
                  ELSE /\ students'[s].name = nm
                       /\ last'.thrown = "none"
        /\ last'.op = "setRoll" =>
              LET s == last'.s
                  r == last'.arg
              IN  IF validateRoll(r) # "none"
                  THEN /\ students'[s].roll = students[s].roll
                       /\ last'.thrown = validateRoll(r)
                  ELSE IF Len(r) >= ROLL_MAX
                  THEN /\ students'[s].roll = students[s].roll
                       /\ last'.thrown = "BufferOverflowException"
                  ELSE /\ students'[s].roll = r
                       /\ last'.thrown = "none"
      ]_vars

\* a name of exactly NAME_MAX valid characters was refused with the overflow
\* error while the record held a name set earlier
C8_Witness ==
    /\ last.op = "setName"
    /\ Len(last.arg) = NAME_MAX
    /\ last.thrown = "BufferOverflowException"
    /\ students[last.s].name \in ValidNames

-----------------------------------------------------------------------------
(* C9 *)

\* the positions of the list whose record has identity k
Matches(k) ==
    {x \in 1..Len(list) : students[list[x]].state = "live" /\ students[list[x]].roll = k}

Without(seq, x) == [y \in 1..(Len(seq) - 1) |-> IF y < x THEN seq[y] ELSE seq[y + 1]]

\* C9 as stated: in any state of the Course reached by add and remove
\* operations, removeByRoll(k) returns false and leaves size() and the stored
\* records unchanged when no record has identity k; otherwise it returns
\* true, removes exactly the first match in list order, decrements size() by
\* one and leaves every other record and their relative order unchanged.
C9_AsStated ==
    [][ last'.op = "removeByRoll" =>
            LET k == last'.arg
            IN  /\ last'.thrown = "none"
                /\ IF Matches(k) = {}
                   THEN /\ last'.ret = FALSE
                        /\ count' = count
                        /\ list' = list
                        /\ students' = students
                   ELSE LET x == CHOOSE x \in Matches(k) : \A y \in Matches(k) : x <= y
                        IN  /\ last'.ret = TRUE
                            /\ count' = count - 1
                            /\ list' = Without(list, x)
                            /\ \A y \in 1..Len(list) :
                                  y # x => students'[list[y]] = students[list[y]]
                            /\ \A s \in Ptrs \ {list[x]} : students'[s] = students[s]
      ]_vars

-----------------------------------------------------------------------------
(* C6 *)

\* C6 as stated: every record held by the Course has an identity that
\* passes validateRoll and a name that passes validateName.
C6_AsStated ==
    \A x \in 1..Len(list) :
        students[list[x]].state = "live" =>
            /\ validateRoll(students[list[x]].roll) = "none"
            /\ validateName(students[list[x]].name) = "none"

-----------------------------------------------------------------------------
(* C4, C5 *)

\* the normalized name: letters case-folded to 0..25, anything else 26
NormChar(c) ==
    IF c >= 97 /\ c <= 122 THEN c - 97
    ELSE IF c >= 65 /\ c <= 90 THEN c - 65
    ELSE 26
Normalized(name) == [k \in 1..Len(name) |-> NormChar(name[k])]
NormName(s) == Normalized(students[s].name)

IsPrefix(a, b) == Len(a) <= Len(b) /\ \A k \in 1..Len(a) : a[k] = b[k]

\* lexicographic order: a prefix comes first, else the first difference decides
LexLeq(a, b) ==
    \/ IsPrefix(a, b)
    \/ \E k \in 1..Len(a) :
          /\ k <= Len(b)
          /\ \A m \in 1..(k - 1) : a[m] = b[m]
          /\ a[k] < b[k]

Position(out, s) == CHOOSE x \in DOMAIN out : out[x] = s

\* how often s occurs in a sequence or array
Occurrences(a, s) == Cardinality({x \in DOMAIN a : a[x] = s})

\* C4 as stated, for a Course that holds each of its records once and holds
\* no deleted record, and for names that passed validateName: of two records
\* with identical normalized names, the one added first comes first in the
\* result of sortByNameUsingTrie.
C4_AsStated ==
    (/\ last.op = "sortByName"
     /\ last.thrown = "none"
     /\ \A x \in 1..Len(list) :
           students[list[x]].state = "live" /\ Occurrences(list, list[x]) = 1)
        => \A x, y \in 1..Len(added) :
              (/\ x < y
               /\ validateName(students[added[x]].name) = "none"
               /\ NormName(added[x]) = NormName(added[y]))
                  => Position(last.out, added[x]) < Position(last.out, added[y])

\* C5 as stated: for every Course, sortByNameUsingTrie returns exactly
\* size() entries, a permutation of the Course's records, with normalized
\* names non-decreasing lexicographically (a proper prefix first, the
\* separator bucket after every letter).
C5_AsStated ==
    last.op = "sortByName" =>
        LET out == last.out
        IN  /\ last.thrown = "none"
            /\ DOMAIN out = 0..(size - 1)
            /\ \A s \in Ptrs : Occurrences(out, s) = Occurrences(list, s)
            /\ \A x, y \in DOMAIN out :
                  x < y => LexLeq(NormName(out[x]), NormName(out[y]))

-----------------------------------------------------------------------------
(* C1, C2, C3, C10 *)

IsPermutation(a, b) ==
    /\ DOMAIN a = DOMAIN b
    /\ \A x \in DOMAIN b : Cardinality({y \in DOMAIN a : a[y] = b[x]}) = 1

\* C3: after quickSortRoll(S, 0, n-1) the array is a permutation of the
\* original record references and the identity strings are non-decreasing
\* under byte-wise lexicographic comparison.
C3_RollSorted ==
    (mode = "roll" /\ phase = "sorted1") =>
        /\ IsPermutation(arr, orig)
        /\ \A x, y \in DOMAIN arr : x < y => LexLeq(arr[x].roll, arr[y].roll)

\* an array of MaxN records that was not in order, and holds two records
\* with the same identity, has been sorted
C3_Witness ==
    /\ mode = "roll" /\ phase = "sorted1"
    /\ Length(arr) = MaxN
    /\ arr # orig
    /\ \E x, y \in DOMAIN arr : x # y /\ arr[x].roll = arr[y].roll

\* C2 as stated: quickSortRoll applied to the result of quickSortRoll leaves
\* the sequence of record references as it was after the first application.
C2_AsStated == phase = "sorted2" => arr = first

\* C1 as stated: after quickSortMarks(S, 0, n-1, f) the array is
\* non-decreasing in f, and records with equal f are in non-decreasing order
\* of their identity strings.
C1_AsStated ==
    (mode \in MarkComponents /\ phase = "sorted1") =>
        \A x, y \in DOMAIN arr : x < y =>
            /\ getComponent(arr[x], mode) <= getComponent(arr[y], mode)
            /\ getComponent(arr[x], mode) = getComponent(arr[y], mode)
                  => LexLeq(arr[x].roll, arr[y].roll)

\* every frame reads and swaps inside its own [lo, hi], and every call was
\* made by its caller on a strictly smaller sub-range of the caller's range
C10_InRange ==
    /\ ~oob
    /\ \A k \in 1..Len(stack) :
          LET f == stack[k]
          IN  /\ f.pc = "scanI" => (f.lo <= f.i /\ f.i <= f.hi)
              /\ f.pc = "scanJ" => (f.lo <= f.j /\ f.j <= f.hi)
              /\ (f.pc = "swap" /\ f.i <= f.j) => (f.lo <= f.i /\ f.j <= f.hi)
              /\ (f.pc = "entry" /\ f.lo <= f.hi) => (0 <= f.lo /\ f.hi < Length(arr))
    /\ \A k \in 2..Len(stack) :
          /\ stack[k - 1].lo <= stack[k].lo
          /\ stack[k].hi <= stack[k - 1].hi
          /\ stack[k].hi - stack[k].lo < stack[k - 1].hi - stack[k - 1].lo

\* C10: in quickSortRoll and quickSortMarks the scan indices only read or
\* swap positions inside [lo, hi], each recursive call is on a strictly
\* smaller sub-range, and the sort terminates.
C10_SafeAndTerminates ==
    /\ []C10_InRange
    /\ (phase = "pass1") ~> (phase = "sorted1")
    /\ (phase = "pass2") ~> (phase = "sorted2")

\* in a sort of MaxN records, a recursive call is about to swap two positions
C10_Witness ==
    /\ phase = "pass1"
    /\ Length(arr) = MaxN
    /\ Len(stack) = 2
    /\ top.pc = "swap" /\ top.i < top.j

=============================================================================
